---- MODULE Spec2Model ----
(***************************************************************************)
(* The asynchronous document pipeline of the document organizer backend:   *)
(* the three Service Bus queues (document-processing, search-indexing,     *)
(* notifications), the worker's pollers for the first two, and the         *)
(* get_notifications endpoint that consumes the third, the worker's life   *)
(* cycle (main, start, stop, the four background tasks on one event loop),  *)
(* the upload and delete operations of the document service, the           *)
(* process-pending endpoint and the provisioning of the queues.            *)
(***************************************************************************)
EXTENDS Integers, Sequences, FiniteSets, TLC

\* ---- bounds of the model ------------------------------------------------
MaxPublished == 2     \* messages put on the queues by producers outside the worker
MaxReceives == 3      \* receive calls issued on the queues
MaxDocs == 1          \* document ids
MaxUsers == 2         \* user ids

\* ---- program constants --------------------------------------------------
MaxRetries == 3       \* "if retry_count < 3"
DocBatch == 5         \* receive_document_processing_messages(max_messages=5)
IdxBatch == 5         \* receive_search_indexing_messages(max_messages=5)
NotifBatch == 10      \* receive_notifications_messages(max_messages=10)
MaxDeliveryCount == 10   \* QueueProperties(max_delivery_count=10)

Docs == 1 .. MaxDocs
Users == 1 .. MaxUsers
None == 0             \* a key that is absent from a JSON object (dict.get -> None)
NoRetry == -1         \* the key retry_count is absent
Paths == {"present.pdf", "missing.pdf"}
Blobs == {"present.pdf"}   \* blob paths for which download_file returns content
\* self.document_processing_queue, self.search_indexing_queue, self.notifications_queue
QueueNames == {"document-processing", "search-indexing", "notifications"}
\* two of the names of CategoryService.CATEGORIES
Categories == {"invoice", "other"}

VARIABLES
    procQ,        \* document-processing queue: set of [id, body, locked, attempt];
                  \* attempt counts the failed attempts that led to the envelope
    idxQ,         \* search-indexing queue: set of [id, body, locked]
    notifQ,       \* notifications queue: set of [id, body, locked]
    nextId,       \* next message id (ServiceBusMessage.message_id is unique)
    published,    \* number of messages published by outside producers
    receives,     \* number of receive calls issued
    db,           \* documents table: Docs -> row or NoDoc
    searchIndex,  \* ids of the documents present in the Azure Search index
    pcD, batchD, curD, successD,     \* document-processing poller
    faultD,       \* where _process_document raised for the current message
    notifOkD,     \* return value of the handler's last send_notification_message_async
    sleepD,       \* seconds of the poller's last asyncio.sleep (0: none yet)
    recvFailedD,  \* the receive call of the poll that just ended raised
    pcI, batchI, curI, successI,     \* search-indexing poller
    sleepI, recvFailedI,
    wpc,          \* main(): "init", "serving" (in gather), "stopping" (finally), "exited"
    startup,      \* outcome of the start-up checks
    exitCode,     \* exit status of the worker process (-1: still running)
    running,      \* DocumentWorker.running
    tasks,        \* DocumentWorker.tasks
    done,         \* tasks that have finished
    cancelReq,    \* tasks with a cancellation that has not been delivered yet
    stopPc,       \* the stop() calls: of the signal handler and of main's finally
    clientOpen,   \* the worker holds a ServiceBusClient that is not closed
    health,       \* outcome of the last test_connection(): at start-up, then periodic
    sleepN,       \* seconds of the sleep the notifications loop is in
    apiResult,    \* last upload_document / delete_document call and its answer
    pcN, userN, messagesN, iN, notificationsN, responseN,  \* get_notifications request
    shownN,       \* <<user, notification id>> of every notification a 200 answer returned
    queues,       \* names of the queues that exist in the Service Bus namespace
    ensureResult, \* last ensure_queues_exist call: its answer and what it did
    userCategory  \* Docs -> the category stored for the document when its user
                  \* specified one at upload, "None" when the user gave none

vars == << procQ, idxQ, notifQ, nextId, published, receives, db, searchIndex,
           pcD, batchD, curD, successD, faultD, notifOkD, sleepD, recvFailedD,
           pcI, batchI, curI, successI, sleepI, recvFailedI,
           wpc, startup, exitCode, running, tasks, done, cancelReq, stopPc,
           clientOpen, health, sleepN, apiResult,
           pcN, userN, messagesN, iN, notificationsN, responseN, shownN,
           queues, ensureResult, userCategory >>

varsD == << pcD, batchD, curD, successD, faultD, notifOkD, sleepD, recvFailedD >>
varsI == << pcI, batchI, curI, successI, sleepI, recvFailedI >>
varsW == << wpc, startup, exitCode, running, tasks, done, cancelReq, stopPc,
            clientOpen, health, sleepN >>
varsN == << pcN, userN, messagesN, iN, notificationsN, responseN, shownN >>
varsQ == << queues, ensureResult >>

\* ---- message bodies -----------------------------------------------------
\* json: "invalid" (json.loads raises), "array" (valid JSON that is no object),
\* "object" (a dict; an absent key is None / NoRetry).
ProcBody(j, d, u, f, p, r) ==
    [json |-> j, document_id |-> d, user_id |-> u, file_path |-> f,
     processing_type |-> p, retry_count |-> r]

IdxBody(j, d, u, a) ==
    [json |-> j, document_id |-> d, user_id |-> u, action |-> a]

NotifBody(j, u, t, d) ==
    [json |-> j, user_id |-> u, type |-> t, document_id |-> d]

NoMsg == [id |-> 0, body |-> [json |-> "none"]]
NoDoc == [user_id |-> None, processing_status |-> "absent", category |-> "None"]
\* no ensure_queues_exist call since the set of queues was last changed by
\* somebody else.  Of a call: its answer (results), the queues it created,
\* whether it raised, whether one of its administration calls failed for
\* another reason than a missing or an existing queue, the queues before
\* the call, and how the call directly before it went ("none", "ok", "failed")
NoEnsure == [called |-> FALSE, results |-> [q \in QueueNames |-> FALSE],
             created |-> {}, raised |-> FALSE, apiFailed |-> FALSE, before |-> {},
             previous |-> "none"]

\* ---- the queue transport (peek-lock) --------------------------------------
Ids(q) == {m.id : m \in q}
Avail(q) == {m \in q : ~m.locked}
Received(m) == [id |-> m.id, body |-> m.body]

RECURSIVE SortById(_)
SortById(S) ==
    IF S = {} THEN << >>
    ELSE LET m == CHOOSE x \in S : \A y \in S : x.id <= y.id
         IN  << Received(m) >> \o SortById(S \ {m})

Min(a, b) == IF a < b THEN a ELSE b

\* receiver.receive_messages(max_message_count=n): the first k available
\* messages, 1 <= k <= n, are locked and handed to the caller.
ReceiveMessages(q, k) == SubSeq(SortById(Avail(q)), 1, k)
SeqIds(s) == {s[i].id : i \in 1 .. Len(s)}
LockMessages(q, s) ==
    {IF m.id \in SeqIds(s) THEN [m EXCEPT !.locked = TRUE] ELSE m : m \in q}

\* the same receive with the queue's count of the deliveries of each
\* message.  The count is kept where a message can reach max_delivery_count:
\* on the notifications queue, whose consumer is not bounded by MaxReceives
\* in every specification; the worker's pollers receive at most MaxReceives
\* times, which is below the limit.
DeliverMessages(q, s) ==
    {IF m.id \in SeqIds(s)
     THEN [m EXCEPT !.locked = TRUE, !.delivery_count = m.delivery_count + 1]
     ELSE m : m \in q}

\* a message that loses its lock is available again, unless it has been
\* delivered max_delivery_count times: the queue then moves it to its
\* dead-letter queue
Unlock(q, ids) ==
    {IF m.id \in ids THEN [m EXCEPT !.locked = FALSE] ELSE m :
        m \in {x \in q : ~(x.id \in ids /\ x.delivery_count >= MaxDeliveryCount)}}

\* receiver.complete_message(msg): the message leaves the queue.
CompleteMessage(q, id) == {m \in q : m.id # id}
\* receiver.abandon_message(msg): the lock is released, the message is
\* available for redelivery.
AbandonMessage(q, id) == Unlock(q, {id})

\* sender.send_messages for each body of a sequence, ids from base upwards.
SendMessages(q, bodies, base) ==
    q \cup {[id |-> base + i - 1, body |-> bodies[i], locked |-> FALSE,
              delivery_count |-> 0] :
               i \in 1 .. Len(bodies)}

\* ---- the worker process ------------------------------------------------------
\* the four background tasks start() creates
Tasks == {"doc", "idx", "notif", "health"}
\* stop() is called by the task the signal handler creates and by main's finally
StopCalls == {"signal", "finally"}
NoCall == [op |-> "none", document_id |-> None, sync |-> FALSE, sent |-> FALSE,
           response |-> "none"]

\* ---- initial state ---------------------------------------------------------
\* every document row belongs to one user; a row is pending until it has been
\* processed (Column default) or completed (upload_document); the rows the
\* table holds at the start carry a category their users specified
Owner(d) == ((d - 1) % MaxUsers) + 1
DbRows(d) == [user_id : {Owner(d)}, processing_status : {"pending", "completed"},
              category : {"invoice"}]
Databases == {database \in [Docs -> [user_id : Users \cup {None},
                                      processing_status : {"absent", "pending", "completed"},
                                      category : Categories \cup {"None"}]] :
                 \A d \in Docs : database[d] \in DbRows(d) \cup {NoDoc}}

Init ==
    /\ procQ = {} /\ idxQ = {} /\ notifQ = {}
    /\ nextId = 1 /\ published = 0 /\ receives = 0
    /\ db \in Databases
    /\ searchIndex = {}
    /\ pcD = "poll" /\ batchD = << >> /\ curD = NoMsg /\ successD = FALSE
    /\ faultD = "none" /\ notifOkD = TRUE /\ sleepD = 0 /\ recvFailedD = FALSE
    /\ pcI = "poll" /\ batchI = << >> /\ curI = NoMsg /\ successI = FALSE
    /\ sleepI = 0 /\ recvFailedI = FALSE
    /\ wpc = "init" /\ startup = "none" /\ exitCode = -1
    /\ running = FALSE /\ tasks = {} /\ done = {} /\ cancelReq = {}
    /\ stopPc = [c \in StopCalls |-> "none"]
    /\ clientOpen = FALSE /\ health = "none" /\ sleepN = 0
    /\ apiResult = NoCall
    /\ pcN = "idle" /\ userN = None /\ messagesN = << >> /\ iN = 0
    /\ notificationsN = << >> /\ responseN = "none" /\ shownN = {}
    /\ queues = QueueNames /\ ensureResult = NoEnsure
    /\ userCategory = [d \in Docs |-> db[d].category]

\* ---- the worker: start-up and the event loop --------------------------------
DocSleep == 5      \* await asyncio.sleep(5) of the document-processing poller
IdxSleep == 3      \* await asyncio.sleep(3) of the search-indexing poller
ErrorSleep == 10   \* await asyncio.sleep(10) of the pollers' except clauses
NotifSleep == 10   \* await asyncio.sleep(10) of the notifications loop

\* a poller that is between two awaits holds the event loop: receive_messages
\* is the synchronous SDK call and the settle calls do not await anything
BusyD == pcD \in {"receiving", "loop", "handle", "result", "complete"}
BusyI == pcI \in {"receiving", "loop", "handle", "result"}
LoopIdle == ~BusyD /\ ~BusyI

Alive(t) == t \in tasks \ done
\* the event loop can run task t: no other task is between two awaits
CanRun(t) ==
    /\ Alive(t)
    /\ t # "doc" => ~BusyD
    /\ t # "idx" => ~BusyI
\* ... and it resumes it normally, not with a CancelledError
Resumable(t) == CanRun(t) /\ t \notin cancelReq

\* stop() cancels the tasks in the order of self.tasks and the event loop
\* wakes them in that order (its ready queue is first in, first out)
TaskOrder == << "doc", "idx", "notif", "health" >>
Position(t) == CHOOSE i \in 1 .. Len(TaskOrder) : TaskOrder[i] = t
\* the event loop delivers the pending cancellation of task t next
CancelDue(t) ==
    /\ CanRun(t)
    /\ t \in cancelReq
    /\ \A o \in cancelReq : Position(t) <= Position(o)

\* receiver.receive_messages(max_message_count=n, max_wait_time=...): how
\* many messages the call can return
ReceiveCounts(q, n) ==
    IF Avail(q) = {} THEN {0} ELSE 1 .. Min(n, Cardinality(Avail(q)))

\* a start-up that goes on without a connection
WorkerStartDegraded(configOk, connOk) ==
    /\ wpc = "init"
    /\ IF ~configOk
       THEN /\ startup' = "config_missing"
            /\ wpc' = "exited" /\ exitCode' = 1
            /\ UNCHANGED << running, tasks, stopPc, clientOpen, health >>
       ELSE /\ startup' = IF connOk THEN "ok" ELSE "connection_failed"
            /\ health' = IF connOk THEN "ok" ELSE "warning"
            /\ clientOpen' = TRUE
            /\ running' = TRUE
            /\ tasks' = Tasks
            /\ wpc' = "serving"
            /\ UNCHANGED << exitCode, stopPc >>
    /\ UNCHANGED << procQ, idxQ, notifQ, nextId, published, receives, db, searchIndex,
                    done, cancelReq, sleepN, varsD, varsI, varsN, apiResult, varsQ, userCategory >>

\* __main__ and main() up to "await asyncio.gather(*self.tasks)".  configOk:
\* the four required environment variables are set; connOk: the outcome of
\* test_connection() in initialize().
WorkerStart(configOk, connOk) ==
    /\ wpc = "init"
    /\ IF ~configOk
       THEN \* sys.exit(1) before asyncio.run
            /\ startup' = "config_missing"
            /\ wpc' = "exited" /\ exitCode' = 1
            /\ UNCHANGED << running, tasks, stopPc, clientOpen, health >>
       ELSE IF ~connOk
       THEN \* initialize raises RuntimeError; main's finally runs stop() on
            \* the empty task list, main re-raises, sys.exit(1)
            /\ startup' = "connection_failed"
            /\ health' = "failed"
            /\ wpc' = "exited" /\ exitCode' = 1
            /\ stopPc' = [stopPc EXCEPT !["finally"] = "returned"]
            /\ UNCHANGED << running, tasks, clientOpen >>
       ELSE /\ startup' = "ok"
            /\ health' = "ok"
            /\ clientOpen' = TRUE
            /\ running' = TRUE
            /\ tasks' = Tasks
            /\ wpc' = "serving"
            /\ UNCHANGED << exitCode, stopPc >>
    /\ UNCHANGED << procQ, idxQ, notifQ, nextId, published, receives, db, searchIndex,
                    done, cancelReq, sleepN, varsD, varsI, varsN, apiResult, varsQ, userCategory >>

\* ---- producers of the document-processing queue ---------------------------
\* Envelopes a producer can put on the document-processing queue.
ProcInputs ==
    {ProcBody("object", d, Owner(d), "present.pdf", "extract_text", r) :
        d \in Docs, r \in 0 .. MaxRetries}
    \cup {ProcBody("object", d, Owner(d), "missing.pdf", "extract_text", 0) : d \in Docs}
    \cup {ProcBody("object", 1, 1, "present.pdf", "extract_text", NoRetry),
          ProcBody("object", 1, 1, "present.pdf", "None", 0),
          ProcBody("object", 1, None, "present.pdf", "extract_text", 0),
          ProcBody("array", None, None, "None", "None", NoRetry),
          ProcBody("invalid", None, None, "None", "None", NoRetry)}

PublishProc(body) ==
    /\ published < MaxPublished
    /\ procQ' = procQ \cup {[id |-> nextId, body |-> body, locked |-> FALSE,
                          delivery_count |-> 0, attempt |-> 0]}
    /\ nextId' = nextId + 1
    /\ published' = published + 1
    /\ UNCHANGED << idxQ, notifQ, receives, db, searchIndex, varsD, varsI, varsN, varsW, apiResult, varsQ, userCategory >>

\* ---- the worker's document-processing poller ------------------------------
\* send_document_processing_message: the envelope it builds.
SendDocumentProcessingMessage(document_id, user_id, file_path, processing_type) ==
    ProcBody("object", document_id, user_id, file_path, processing_type, 0)

\* send_notification_message_async: the notification it builds.
SendNotificationMessageAsync(user_id, notification_type, document_id) ==
    NotifBody("object", user_id, notification_type, document_id)

\* _process_document(message_data).  fault is where the try body raises:
\* "none", "before_start" (before the start notification is sent) or
\* "after_start" (in the processing between the two notifications); sendOk
\* is the outcome of the notification publishes (send_notification_message
\* returns False on an error, and the handler ignores the return value).
\* The result is the return value and the notifications published, in order.
ProcessDocument(message_data, fault, sendOk) ==
    LET Sent(s) == IF sendOk THEN s ELSE << >>
    IN
    IF message_data.json = "array"
    THEN \* message_data['document_id'] raises TypeError; 'user_id' is not in the list
         [success |-> FALSE, sent |-> << >>]
    ELSE IF \/ message_data.document_id = None
            \/ message_data.user_id = None
            \/ message_data.processing_type = "None"
    THEN \* KeyError in the first three lines of the try body
         [success |-> FALSE,
          sent |-> IF message_data.user_id # None
                   THEN Sent(<< SendNotificationMessageAsync(message_data.user_id, "error",
                                                             message_data.document_id) >>)
                   ELSE << >>]
    ELSE LET start == SendNotificationMessageAsync(message_data.user_id, "info",
                                                  message_data.document_id)
             ok == SendNotificationMessageAsync(message_data.user_id, "success",
                                               message_data.document_id)
             err == SendNotificationMessageAsync(message_data.user_id, "error",
                                                message_data.document_id)
         IN  CASE fault = "none" -> [success |-> TRUE, sent |-> Sent(<< start, ok >>)]
               [] fault = "before_start" -> [success |-> FALSE, sent |-> Sent(<< err >>)]
               [] OTHER -> [success |-> FALSE, sent |-> Sent(<< start, err >>)]

Faults == {"none", "before_start", "after_start"}

\* the try body of _process_document reaches "await asyncio.sleep(2)"
ReachesSleep(message_data, fault) ==
    /\ message_data.json = "object"
    /\ message_data.document_id # None
    /\ message_data.user_id # None
    /\ message_data.processing_type # "None"
    /\ fault # "before_start"

\* message_data.get('retry_count', 0)
RetryCountOf(message_data) ==
    IF message_data.retry_count = NoRetry THEN 0 ELSE message_data.retry_count

\* "while self.running:" is true and the poller enters the synchronous
\* receiver.receive_messages(max_wait_time=30) of the document-processing queue
DocReceiveCall ==
    /\ pcD = "poll"
    /\ Resumable("doc")
    /\ running
    /\ receives < MaxReceives
    /\ receives' = receives + 1
    /\ pcD' = "receiving"
    /\ recvFailedD' = FALSE
    /\ UNCHANGED << procQ, idxQ, notifQ, nextId, published, db, searchIndex,
                    batchD, curD, successD, faultD, notifOkD, sleepD,
                    varsI, varsN, varsW, apiResult, varsQ, userCategory >>

\* receive_messages returns: the first k available messages, or none when
\* the queue stayed empty for max_wait_time
DocReceive(k) ==
    /\ pcD = "receiving"
    /\ k \in ReceiveCounts(procQ, DocBatch)
    /\ batchD' = ReceiveMessages(procQ, k)
    /\ procQ' = LockMessages(procQ, batchD')
    /\ pcD' = "loop"
    /\ UNCHANGED << idxQ, notifQ, nextId, published, receives, db, searchIndex, curD, successD,
                    faultD, notifOkD, sleepD, recvFailedD,
                    varsI, varsN, varsW, apiResult, varsQ, userCategory >>

\* a receive error that escapes the poller's loop and ends the task
DocReceiveErrorEndsLoop ==
    /\ pcD = "receiving"
    /\ recvFailedD' = TRUE
    /\ pcD' = "ended"
    /\ done' = done \cup {"doc"}
    /\ UNCHANGED << procQ, idxQ, notifQ, nextId, published, receives, db, searchIndex,
                    batchD, curD, successD, faultD, notifOkD, sleepD,
                    wpc, startup, exitCode, running, tasks, cancelReq, stopPc, clientOpen,
                    health, sleepN, varsI, varsN, apiResult, varsQ, userCategory >>

\* receive_messages (or opening the receiver) raises: the except clauses of
\* receive_document_processing_messages print the error, the call returns
\* normally and the poller goes on to its normal sleep
DocReceiveError ==
    /\ pcD = "receiving"
    /\ recvFailedD' = TRUE
    /\ sleepD' = DocSleep
    /\ pcD' = "poll"
    /\ UNCHANGED << procQ, idxQ, notifQ, nextId, published, receives, db, searchIndex,
                    batchD, curD, successD, faultD, notifOkD,
                    varsI, varsN, varsW, apiResult, varsQ, userCategory >>

\* for msg in received_msgs; after the last message the call returns and the
\* poller sleeps until its next poll
DocNext ==
    /\ pcD = "loop"
    /\ IF batchD = << >>
       THEN /\ pcD' = "poll"
            /\ curD' = NoMsg
            /\ sleepD' = DocSleep
            /\ UNCHANGED batchD
       ELSE /\ pcD' = "handle"
            /\ curD' = Head(batchD)
            /\ batchD' = Tail(batchD)
            /\ UNCHANGED sleepD
    /\ successD' = FALSE
    /\ faultD' = "none"
    /\ notifOkD' = TRUE
    /\ UNCHANGED << procQ, idxQ, notifQ, nextId, published, receives, db, searchIndex,
                    recvFailedD, varsI, varsN, varsW, apiResult, varsQ, userCategory >>

\* json.loads(str(msg)); success = await self._process_document(message_data),
\* up to its return or to its "await asyncio.sleep(2)"
DocHandle(fault, sendOk) ==
    /\ pcD = "handle"
    /\ IF curD.body.json = "invalid"
       THEN \* json.loads raises: except Exception -> abandon_message
            /\ fault = "none" /\ sendOk
            /\ procQ' = AbandonMessage(procQ, curD.id)
            /\ pcD' = "loop"
            /\ UNCHANGED << notifQ, nextId, successD, faultD, notifOkD >>
       ELSE LET r == ProcessDocument(curD.body, fault, sendOk)
                now == IF ReachesSleep(curD.body, fault)
                       THEN SubSeq(r.sent, 1, Min(1, Len(r.sent)))
                       ELSE r.sent
            IN  /\ fault = "none" \/ ReachesSleep(curD.body, "none")
                /\ sendOk \/ (curD.body.json = "object" /\ curD.body.user_id # None)
                /\ notifQ' = SendMessages(notifQ, now, nextId)
                /\ nextId' = nextId + Len(now)
                /\ notifOkD' = sendOk
                /\ IF ReachesSleep(curD.body, fault)
                   THEN pcD' = "processing" /\ UNCHANGED << successD, faultD >>
                   ELSE pcD' = "result" /\ successD' = r.success /\ faultD' = fault
                /\ UNCHANGED procQ
    /\ UNCHANGED << idxQ, published, receives, db, searchIndex, batchD, curD,
                    sleepD, recvFailedD, varsI, varsN, varsW, apiResult, varsQ, userCategory >>

\* _process_document from the end of its sleep to its return
DocResume(fault, sendOk) ==
    /\ pcD = "processing"
    /\ Resumable("doc")
    /\ fault # "before_start"
    /\ LET r == ProcessDocument(curD.body, fault, sendOk)
           rest == IF r.sent = << >> THEN << >> ELSE Tail(r.sent)
       IN  /\ notifQ' = SendMessages(notifQ, rest, nextId)
           /\ nextId' = nextId + Len(rest)
           /\ successD' = r.success
    /\ faultD' = fault
    /\ notifOkD' = sendOk
    /\ pcD' = "result"
    /\ UNCHANGED << procQ, idxQ, published, receives, db, searchIndex, batchD, curD,
                    sleepD, recvFailedD, varsI, varsN, varsW, apiResult, varsQ, userCategory >>

\* the retry branch republishes: the handler failed, the envelope is an
\* object with every key of the new envelope, and retries remain
Republishes(message_data, success) ==
    /\ ~success
    /\ message_data.json = "object"
    /\ RetryCountOf(message_data) + 1 < MaxRetries
    /\ message_data.document_id # None /\ message_data.user_id # None
    /\ message_data.file_path # "None" /\ message_data.processing_type # "None"

\* if success: complete_message; else: the retry branch up to the republish.
\* sendOk is the outcome of the republish: send_document_processing_message
\* catches every error and returns False, and the caller ignores the value.
DocSettle(sendOk) ==
    /\ pcD = "result"
    /\ sendOk \/ Republishes(curD.body, successD)
    /\ LET message_data == curD.body
           retry_count == RetryCountOf(message_data) + 1
       IN  IF successD
           THEN /\ procQ' = CompleteMessage(procQ, curD.id)
                /\ pcD' = "loop"
                /\ UNCHANGED nextId
           ELSE IF message_data.json = "array"
           THEN \* message_data.get raises AttributeError: abandon_message
                /\ procQ' = AbandonMessage(procQ, curD.id)
                /\ pcD' = "loop"
                /\ UNCHANGED nextId
           ELSE IF retry_count < MaxRetries
           THEN IF \/ message_data.document_id = None
                   \/ message_data.user_id = None
                   \/ message_data.file_path = "None"
                   \/ message_data.processing_type = "None"
                THEN \* KeyError while building the arguments: abandon_message
                     /\ procQ' = AbandonMessage(procQ, curD.id)
                     /\ pcD' = "loop"
                     /\ UNCHANGED nextId
                ELSE IF ~sendOk
                THEN \* the send failed and returned False: nothing is published
                     /\ pcD' = "complete"
                     /\ UNCHANGED << procQ, nextId >>
                ELSE \* message_data['retry_count'] = retry_count is never sent:
                     \* the new envelope is built from the four arguments only
                     /\ procQ' = procQ \cup
                           {[id |-> nextId,
                             body |-> SendDocumentProcessingMessage(
                                          message_data.document_id, message_data.user_id,
                                          message_data.file_path, message_data.processing_type),
                             locked |-> FALSE, delivery_count |-> 0,
                             attempt |-> (CHOOSE m \in procQ : m.id = curD.id).attempt + 1]}
                     /\ nextId' = nextId + 1
                     /\ pcD' = "complete"
           ELSE /\ pcD' = "complete"
                /\ UNCHANGED << procQ, nextId >>
    /\ UNCHANGED << idxQ, notifQ, published, receives, db, searchIndex, batchD, curD, successD,
                    faultD, notifOkD, sleepD, recvFailedD,
                    varsI, varsN, varsW, apiResult, varsQ, userCategory >>

\* receiver.complete_message(msg) that ends the failure branch
DocComplete ==
    /\ pcD = "complete"
    /\ procQ' = CompleteMessage(procQ, curD.id)
    /\ pcD' = "loop"
    /\ UNCHANGED << idxQ, notifQ, nextId, published, receives, db, searchIndex,
                    batchD, curD, successD, faultD, notifOkD, sleepD, recvFailedD,
                    varsI, varsN, varsW, apiResult, varsQ, userCategory >>

\* a cancellation that completes the message the poller was handling
DocCancelledCompletes ==
    /\ pcD \in {"poll", "processing"}
    /\ CancelDue("doc")
    /\ procQ' = CompleteMessage(procQ, curD.id)
    /\ pcD' = "cancelled"
    /\ done' = done \cup {"doc"}
    /\ cancelReq' = cancelReq \ {"doc"}
    /\ UNCHANGED << idxQ, notifQ, nextId, published, receives, db, searchIndex,
                    batchD, curD, successD, faultD, notifOkD, sleepD, recvFailedD,
                    wpc, startup, exitCode, running, tasks, stopPc, clientOpen, health,
                    sleepN, varsI, varsN, apiResult, varsQ, userCategory >>

\* task.cancel() reaches the poller at the await it is suspended in (the
\* sleep between polls or the sleep inside _process_document): CancelledError
\* is no Exception, no except clause catches it, the receiver is closed and
\* the task ends; no message is completed or abandoned
DocCancelled ==
    /\ pcD \in {"poll", "processing"}
    /\ CancelDue("doc")
    /\ pcD' = "cancelled"
    /\ done' = done \cup {"doc"}
    /\ cancelReq' = cancelReq \ {"doc"}
    /\ UNCHANGED << procQ, idxQ, notifQ, nextId, published, receives, db, searchIndex,
                    batchD, curD, successD, faultD, notifOkD, sleepD, recvFailedD,
                    wpc, startup, exitCode, running, tasks, stopPc, clientOpen, health,
                    sleepN, varsI, varsN, apiResult, varsQ, userCategory >>

\* lock_duration=timedelta(minutes=5): the messages the cancelled poller
\* held were locked by one receive call; their locks expire together and
\* the messages are available again
LockExpireProc ==
    /\ pcD = "cancelled"
    /\ \E m \in procQ : m.locked
    /\ procQ' = Unlock(procQ, {m.id : m \in {x \in procQ : x.locked}})
    /\ UNCHANGED << idxQ, notifQ, nextId, published, receives, db, searchIndex,
                    varsD, varsI, varsN, varsW, apiResult, varsQ, userCategory >>

\* the poller's steps; FaultPoints are the places where the processing can
\* raise, SendOutcomes the outcomes the handler's notification publishes can have
DocPoller(FaultPoints, SendOutcomes) ==
    \/ DocReceiveCall
    \/ \E k \in 0 .. DocBatch : DocReceive(k)
    \/ DocReceiveError
    \/ DocNext
    \/ \E fault \in FaultPoints : \E sendOk \in SendOutcomes : DocHandle(fault, sendOk)
    \/ \E fault \in FaultPoints : \E sendOk \in SendOutcomes : DocResume(fault, sendOk)
    \/ \E sendOk \in SendOutcomes : DocSettle(sendOk)
    \/ DocComplete

NextProc ==
    \/ \E body \in ProcInputs : PublishProc(body)
    \/ \E configOk \in BOOLEAN : \E connOk \in BOOLEAN : WorkerStart(configOk, connOk)
    \/ DocPoller(Faults, {TRUE})

SpecProc == Init /\ [][NextProc]_vars

\* ---- producers of the search-indexing queue ---------------------------------
\* Envelopes a producer can put on the search-indexing queue
\* (send_search_indexing_message builds the first family).
SendSearchIndexingMessage(document_id, user_id, action) ==
    IdxBody("object", document_id, user_id, action)

\* a user who does not own document d
OtherUser(d) == (Owner(d) % MaxUsers) + 1

IdxInputs ==
    UNION {{SendSearchIndexingMessage(d, u, a) :
               u \in {Owner(d), OtherUser(d)}, a \in {"index", "delete"}} : d \in Docs}
    \cup {IdxBody("object", 1, 1, "update"),
          IdxBody("object", 1, 1, "None"),
          IdxBody("object", None, 1, "index"),
          IdxBody("array", None, None, "None"),
          IdxBody("invalid", None, None, "None")}

PublishIdx(body) ==
    /\ published < MaxPublished
    /\ idxQ' = SendMessages(idxQ, << body >>, nextId)
    /\ nextId' = nextId + 1
    /\ published' = published + 1
    /\ UNCHANGED << procQ, notifQ, receives, db, searchIndex, varsD, varsI, varsN, varsW, apiResult, varsQ, userCategory >>

\* ---- the worker's search-indexing poller ------------------------------------
\* db.query(Document).filter(id == document_id, user_id == user_id).first()
QueryDocument(database, document_id, user_id) ==
    IF document_id \in Docs /\ database[document_id] # NoDoc
                            /\ database[document_id].user_id = user_id
    THEN database[document_id]
    ELSE NoDoc

\* _process_search_indexing that takes a missing document for a success
ProcessSearchIndexingNotFoundOk(message_data, database, index, searchOk) ==
    IF message_data.json = "array"
    THEN [success |-> FALSE, index |-> index]
    ELSE IF message_data.document_id = None \/ message_data.user_id = None
    THEN [success |-> FALSE, index |-> index]
    ELSE LET action == IF message_data.action = "None" THEN "index"
                       ELSE message_data.action
             document == QueryDocument(database, message_data.document_id,
                                       message_data.user_id)
         IN  IF document = NoDoc
             THEN [success |-> TRUE, index |-> index]
             ELSE IF action = "index"
             THEN [success |-> searchOk,
                   index |-> IF searchOk THEN index \cup {message_data.document_id}
                             ELSE index]
             ELSE IF action = "delete"
             THEN [success |-> searchOk,
                   index |-> IF searchOk THEN index \ {message_data.document_id}
                             ELSE index]
             ELSE [success |-> FALSE, index |-> index]

\* _process_search_indexing(message_data).  searchOk is the outcome of the
\* Azure Search call (index_document / delete_document return value).
\* The result is the return value and the search index afterwards.
ProcessSearchIndexing(message_data, database, index, searchOk) ==
    IF message_data.json = "array"
    THEN [success |-> FALSE, index |-> index]      \* TypeError, caught
    ELSE IF message_data.document_id = None \/ message_data.user_id = None
    THEN [success |-> FALSE, index |-> index]      \* KeyError, caught
    ELSE LET action == IF message_data.action = "None" THEN "index"
                       ELSE message_data.action
             document == QueryDocument(database, message_data.document_id,
                                       message_data.user_id)
         IN  IF document = NoDoc
             THEN [success |-> FALSE, index |-> index]
             ELSE IF action = "index"
             THEN [success |-> searchOk,
                   index |-> IF searchOk THEN index \cup {message_data.document_id}
                             ELSE index]
             ELSE IF action = "delete"
             THEN [success |-> searchOk,
                   index |-> IF searchOk THEN index \ {message_data.document_id}
                             ELSE index]
             ELSE [success |-> FALSE, index |-> index]

\* "while self.running:" is true and the poller enters the synchronous
\* receiver.receive_messages(max_wait_time=30) of the search-indexing queue
IdxReceiveCall ==
    /\ pcI = "poll"
    /\ Resumable("idx")
    /\ running
    /\ receives < MaxReceives
    /\ receives' = receives + 1
    /\ pcI' = "receiving"
    /\ recvFailedI' = FALSE
    /\ UNCHANGED << procQ, idxQ, notifQ, nextId, published, db, searchIndex,
                    batchI, curI, successI, sleepI, varsD, varsN, varsW, apiResult, varsQ, userCategory >>

IdxReceive(k) ==
    /\ pcI = "receiving"
    /\ k \in ReceiveCounts(idxQ, IdxBatch)
    /\ batchI' = ReceiveMessages(idxQ, k)
    /\ idxQ' = LockMessages(idxQ, batchI')
    /\ pcI' = "loop"
    /\ UNCHANGED << procQ, notifQ, nextId, published, receives, db, searchIndex, curI, successI,
                    sleepI, recvFailedI, varsD, varsN, varsW, apiResult, varsQ, userCategory >>

\* the receive raises: receive_search_indexing_messages prints the error and
\* returns normally, the poller goes on to its normal sleep
IdxReceiveError ==
    /\ pcI = "receiving"
    /\ recvFailedI' = TRUE
    /\ sleepI' = IdxSleep
    /\ pcI' = "poll"
    /\ UNCHANGED << procQ, idxQ, notifQ, nextId, published, receives, db, searchIndex,
                    batchI, curI, successI, varsD, varsN, varsW, apiResult, varsQ, userCategory >>

IdxNext ==
    /\ pcI = "loop"
    /\ IF batchI = << >>
       THEN /\ pcI' = "poll"
            /\ curI' = NoMsg
            /\ sleepI' = IdxSleep
            /\ UNCHANGED batchI
       ELSE /\ pcI' = "handle"
            /\ curI' = Head(batchI)
            /\ batchI' = Tail(batchI)
            /\ UNCHANGED sleepI
    /\ successI' = FALSE
    /\ UNCHANGED << procQ, idxQ, notifQ, nextId, published, receives, db, searchIndex,
                    recvFailedI, varsD, varsN, varsW, apiResult, varsQ, userCategory >>

\* json.loads(str(msg)); success = await self._process_search_indexing(message_data)
IdxHandle(searchOk) ==
    /\ pcI = "handle"
    /\ IF curI.body.json = "invalid"
       THEN \* json.loads raises: except Exception -> abandon_message
            /\ idxQ' = AbandonMessage(idxQ, curI.id)
            /\ pcI' = "loop"
            /\ UNCHANGED << searchIndex, successI >>
       ELSE LET r == ProcessSearchIndexing(curI.body, db, searchIndex, searchOk)
            IN  /\ searchIndex' = r.index
                /\ successI' = r.success
                /\ pcI' = "result"
                /\ UNCHANGED idxQ
    /\ UNCHANGED << procQ, notifQ, nextId, published, receives, db, batchI, curI,
                    sleepI, recvFailedI, varsD, varsN, varsW, apiResult, varsQ, userCategory >>

\* if success: complete_message else: abandon_message (for an array body the
\* print of the else branch raises AttributeError and the except abandons)
IdxSettle ==
    /\ pcI = "result"
    /\ idxQ' = IF successI THEN CompleteMessage(idxQ, curI.id)
               ELSE AbandonMessage(idxQ, curI.id)
    /\ pcI' = "loop"
    /\ UNCHANGED << procQ, notifQ, nextId, published, receives, db, searchIndex,
                    batchI, curI, successI, sleepI, recvFailedI,
                    varsD, varsN, varsW, apiResult, varsQ, userCategory >>

\* task.cancel() reaches the poller in its sleep between two polls
IdxCancelled ==
    /\ pcI = "poll"
    /\ CancelDue("idx")
    /\ pcI' = "cancelled"
    /\ done' = done \cup {"idx"}
    /\ cancelReq' = cancelReq \ {"idx"}
    /\ UNCHANGED << procQ, idxQ, notifQ, nextId, published, receives, db, searchIndex,
                    batchI, curI, successI, sleepI, recvFailedI,
                    wpc, startup, exitCode, running, tasks, stopPc, clientOpen, health,
                    sleepN, varsD, varsN, apiResult, varsQ, userCategory >>

IdxPoller ==
    \/ IdxReceiveCall
    \/ \E k \in 0 .. IdxBatch : IdxReceive(k)
    \/ IdxReceiveError
    \/ IdxNext
    \/ \E searchOk \in BOOLEAN : IdxHandle(searchOk)
    \/ IdxSettle

NextIdx ==
    \/ \E body \in IdxInputs : PublishIdx(body)
    \/ \E configOk \in BOOLEAN : \E connOk \in BOOLEAN : WorkerStart(configOk, connOk)
    \/ IdxPoller

SpecIdx == Init /\ [][NextIdx]_vars

\* the processing tasks of the documents
TaskInputs ==
    {SendDocumentProcessingMessage(d, Owner(d), "present.pdf", "extract_text") : d \in Docs}

\* the document-processing poller with processing that can raise and sends
\* (notifications, the republish) that can fail
NextRetry ==
    \/ \E body \in TaskInputs : PublishProc(body)
    \/ \E configOk \in BOOLEAN : \E connOk \in BOOLEAN : WorkerStart(configOk, connOk)
    \/ DocPoller(Faults, BOOLEAN)

SpecRetry == Init /\ [][NextRetry]_vars

\* ---- the worker: the other loops, stop and exit -------------------------------
\* an iteration of the notifications loop that receives the notifications
NotifLoopReceives ==
    /\ Resumable("notif")
    /\ running
    /\ notifQ' = LockMessages(notifQ, ReceiveMessages(notifQ,
                     Min(NotifBatch, Cardinality(Avail(notifQ)))))
    /\ sleepN' = NotifSleep
    /\ UNCHANGED << procQ, idxQ, nextId, published, receives, db, searchIndex,
                    wpc, startup, exitCode, running, tasks, done, cancelReq, stopPc,
                    clientOpen, health, varsD, varsI, varsN, apiResult, varsQ, userCategory >>

\* one iteration of _process_notifications_queue: nothing is received (the
\* receive is a TODO), the loop sleeps
NotifLoop ==
    /\ Resumable("notif")
    /\ running
    /\ sleepN' = NotifSleep
    /\ UNCHANGED << procQ, idxQ, notifQ, nextId, published, receives, db, searchIndex,
                    wpc, startup, exitCode, running, tasks, done, cancelReq, stopPc,
                    clientOpen, health, varsD, varsI, varsN, apiResult, varsQ, userCategory >>

\* one iteration of _health_check_task after its sleep: test_connection()
\* answers connOk (it catches every exception and answers False); a False
\* is logged as a warning
HealthCheck(connOk) ==
    /\ Resumable("health")
    /\ running
    /\ health' = IF connOk THEN "ok" ELSE "warning"
    /\ UNCHANGED << procQ, idxQ, notifQ, nextId, published, receives, db, searchIndex,
                    wpc, startup, exitCode, running, tasks, done, cancelReq, stopPc,
                    clientOpen, sleepN, varsD, varsI, varsN, apiResult, varsQ, userCategory >>

\* task.cancel() reaches the notifications loop or the health check in its sleep
TaskCancelled(t) ==
    /\ t \in {"notif", "health"}
    /\ CancelDue(t)
    /\ done' = done \cup {t}
    /\ cancelReq' = cancelReq \ {t}
    /\ UNCHANGED << procQ, idxQ, notifQ, nextId, published, receives, db, searchIndex,
                    wpc, startup, exitCode, running, tasks, stopPc, clientOpen, health,
                    sleepN, varsD, varsI, varsN, apiResult, varsQ, userCategory >>

\* stop() up to "await asyncio.gather(*self.tasks, return_exceptions=True)"
StopBegin(c) ==
    /\ running' = FALSE
    /\ cancelReq' = cancelReq \cup (tasks \ done)
    /\ stopPc' = [stopPc EXCEPT ![c] = "waiting"]

\* SIGTERM / SIGINT: the handler creates a task that runs stop()
StopSignal ==
    /\ wpc \in {"serving", "stopping"}
    /\ stopPc["signal"] = "none"
    /\ LoopIdle
    /\ StopBegin("signal")
    /\ UNCHANGED << procQ, idxQ, notifQ, nextId, published, receives, db, searchIndex,
                    wpc, startup, exitCode, tasks, done, clientOpen, health, sleepN,
                    varsD, varsI, varsN, apiResult, varsQ, userCategory >>

\* a task has ended: gather raises in start(), start() returns and main's
\* finally calls stop().  main is woken by the callback of the first task
\* that ended, which the event loop runs after the wake-ups of the tasks
\* that were cancelled together with it.
MainFinally ==
    /\ wpc = "serving"
    /\ done # {}
    /\ cancelReq = {}
    /\ LoopIdle
    /\ StopBegin("finally")
    /\ wpc' = "stopping"
    /\ UNCHANGED << procQ, idxQ, notifQ, nextId, published, receives, db, searchIndex,
                    startup, exitCode, tasks, done, clientOpen, health, sleepN,
                    varsD, varsI, varsN, apiResult, varsQ, userCategory >>

\* stop() that returns without waiting for its gather
StopReturnEarly(c) ==
    /\ wpc # "exited"
    /\ stopPc[c] = "waiting"
    /\ c = "finally" => stopPc["signal"] # "waiting"
    /\ LoopIdle
    /\ stopPc' = [stopPc EXCEPT ![c] = "returned"]
    /\ UNCHANGED << procQ, idxQ, notifQ, nextId, published, receives, db, searchIndex,
                    wpc, startup, exitCode, running, tasks, done, cancelReq, clientOpen,
                    health, sleepN, varsD, varsI, varsN, apiResult, varsQ, userCategory >>

\* the gather of stop() is over: every task has finished.  The gather of the
\* signal's stop() was awaited first, so that call is woken before the
\* stop() of main's finally.
StopReturn(c) ==
    /\ wpc # "exited"
    /\ stopPc[c] = "waiting"
    /\ c = "finally" => stopPc["signal"] # "waiting"
    /\ tasks \subseteq done
    /\ LoopIdle
    /\ stopPc' = [stopPc EXCEPT ![c] = "returned"]
    /\ UNCHANGED << procQ, idxQ, notifQ, nextId, published, receives, db, searchIndex,
                    wpc, startup, exitCode, running, tasks, done, cancelReq, clientOpen,
                    health, sleepN, varsD, varsI, varsN, apiResult, varsQ, userCategory >>

\* main() returns after its finally, asyncio.run returns and the process
\* ends; the service object is destroyed and __del__ closes the client
MainExit ==
    /\ wpc = "stopping"
    /\ stopPc["finally"] = "returned"
    /\ wpc' = "exited"
    /\ exitCode' = 0
    /\ clientOpen' = FALSE
    /\ UNCHANGED << procQ, idxQ, notifQ, nextId, published, receives, db, searchIndex,
                    startup, running, tasks, done, cancelReq, stopPc, health, sleepN,
                    varsD, varsI, varsN, apiResult, varsQ, userCategory >>

\* the processing tasks and a message whose handling fails (json.loads raises)
WorkerInputs ==
    TaskInputs \cup {ProcBody("invalid", None, None, "None", "None", NoRetry)}

\* the worker process from its start to its exit, with an empty
\* search-indexing queue and processing that does not raise (DocComplete,
\* the end of the retry branch, is then never reached)
NextWorker ==
    \/ \E body \in WorkerInputs : PublishProc(body)
    \/ \E configOk \in BOOLEAN : \E connOk \in BOOLEAN : WorkerStart(configOk, connOk)
    \/ DocReceiveCall
    \/ \E k \in 0 .. DocBatch : DocReceive(k)
    \/ DocReceiveError
    \/ DocNext
    \/ DocHandle("none", TRUE)
    \/ DocResume("none", TRUE)
    \/ DocSettle(TRUE)
    \/ IdxReceiveCall
    \/ \E k \in 0 .. IdxBatch : IdxReceive(k)
    \/ IdxReceiveError
    \/ IdxNext
    \/ NotifLoop
    \/ \E connOk \in BOOLEAN : HealthCheck(connOk)
    \/ StopSignal
    \/ MainFinally
    \/ DocCancelled
    \/ IdxCancelled
    \/ \E t \in Tasks : TaskCancelled(t)
    \/ \E c \in StopCalls : StopReturn(c)
    \/ MainExit
    \/ LockExpireProc

\* the worker does not read the documents table in these steps
InitWorker == Init /\ db = [d \in Docs |-> NoDoc]

SpecWorker == InitWorker /\ [][NextWorker]_vars

\* ---- the document service: upload and delete ---------------------------------
\* upload_document whose answer depends on the outcome of the publish
UploadResponsePublishFails(syncOk, sendOk) ==
    IF syncOk /\ sendOk THEN "success" ELSE "error"

\* the answer of upload_document.  syncOk: storing the file and committing
\* the row succeeded; sendOk: the outcome of send_search_indexing_message.
\* The publishes are inside try/except blocks that only print.
UploadResponse(syncOk, sendOk) ==
    IF syncOk THEN "success" ELSE "error"

\* the answer of delete_document for a document that was found
DeleteResponse(syncOk, sendOk) ==
    IF syncOk THEN "success" ELSE "error"

\* CategoryService.normalize_category_input(user_input): a category name,
\* the name an alias stands for, or None
NormalizeCategoryInput(user_input) ==
    CASE user_input \in Categories -> user_input
      [] user_input = "bill" -> "invoice"
      [] OTHER -> "None"

\* what a user can type into the category field of the upload form
CategoryInputs == {"None", "invoice", "bill", "bogus"}

\* the category upload_document stores: the automatic one when the user gave
\* none, else the normalized input, or "other" when that is no category
UploadCategory(category, auto_category) ==
    IF category = "None" THEN auto_category
    ELSE IF NormalizeCategoryInput(category) # "None"
    THEN NormalizeCategoryInput(category)
    ELSE "other"

\* upload_document with Service Bus configured: the row is committed with
\* status completed, then the index message is published.  The notification
\* call passes keyword arguments send_notification_message does not take;
\* the TypeError is caught and nothing is published.  category is the
\* user's input, auto_category the answer of CategoryService.auto_categorize.
UploadDocument(d, category, auto_category, syncOk, sendOk) ==
    /\ published < MaxPublished
    /\ db[d] = NoDoc
    /\ IF syncOk
       THEN /\ db' = [db EXCEPT ![d] = [user_id |-> Owner(d),
                                        processing_status |-> "completed",
                                        category |-> UploadCategory(category, auto_category)]]
            /\ userCategory' = [userCategory EXCEPT ![d] =
                                   IF category = "None" THEN "None"
                                   ELSE UploadCategory(category, auto_category)]
            /\ IF sendOk
               THEN /\ idxQ' = SendMessages(idxQ,
                                  << SendSearchIndexingMessage(d, Owner(d), "index") >>, nextId)
                    /\ nextId' = nextId + 1
               ELSE UNCHANGED << idxQ, nextId >>
       ELSE \* the exception is re-raised after the stored file is removed
            /\ sendOk
            /\ UNCHANGED << db, idxQ, nextId, userCategory >>
    /\ apiResult' = [op |-> "upload", document_id |-> d, sync |-> syncOk,
                     sent |-> syncOk /\ sendOk,
                     response |-> UploadResponse(syncOk, sendOk)]
    /\ published' = published + 1
    /\ UNCHANGED << procQ, notifQ, receives, searchIndex, varsD, varsI, varsN, varsW, varsQ >>

\* delete_document: the delete message is published, the file is removed, the
\* notification call fails as in upload_document, then the row is deleted
\* (syncOk: the commit succeeds).
DeleteDocument(d, u, syncOk, sendOk) ==
    /\ published < MaxPublished
    /\ IF QueryDocument(db, d, u) = NoDoc
       THEN \* return False
            /\ syncOk /\ sendOk
            /\ apiResult' = [op |-> "delete", document_id |-> d, sync |-> FALSE,
                             sent |-> FALSE, response |-> "not_found"]
            /\ UNCHANGED << db, idxQ, nextId, userCategory >>
       ELSE /\ IF sendOk
               THEN /\ idxQ' = SendMessages(idxQ,
                                  << SendSearchIndexingMessage(d, u, "delete") >>, nextId)
                    /\ nextId' = nextId + 1
               ELSE UNCHANGED << idxQ, nextId >>
            /\ db' = IF syncOk THEN [db EXCEPT ![d] = NoDoc] ELSE db
            /\ userCategory' = IF syncOk THEN [userCategory EXCEPT ![d] = "None"]
                               ELSE userCategory
            /\ apiResult' = [op |-> "delete", document_id |-> d, sync |-> syncOk,
                             sent |-> sendOk,
                             response |-> DeleteResponse(syncOk, sendOk)]
    /\ published' = published + 1
    /\ UNCHANGED << procQ, notifQ, receives, searchIndex, varsD, varsI, varsN, varsW, varsQ >>

\* the document service and the worker's document poller, with publishes
\* that can fail and processing that does not raise (DocComplete, the end of
\* the failure branch, is then never reached)
NextApi ==
    \/ \E d \in Docs : \E syncOk \in BOOLEAN : \E sendOk \in BOOLEAN :
          UploadDocument(d, "invoice", "other", syncOk, sendOk)
    \/ \E d \in Docs : \E u \in Users : \E syncOk \in BOOLEAN : \E sendOk \in BOOLEAN :
          DeleteDocument(d, u, syncOk, sendOk)
    \/ \E body \in TaskInputs : PublishProc(body)
    \/ \E configOk \in BOOLEAN : \E connOk \in BOOLEAN : WorkerStart(configOk, connOk)
    \/ DocReceiveCall
    \/ \E k \in 0 .. DocBatch : DocReceive(k)
    \/ DocReceiveError
    \/ DocNext
    \/ \E sendOk \in BOOLEAN : DocHandle("none", sendOk)
    \/ \E sendOk \in BOOLEAN : DocResume("none", sendOk)
    \/ DocSettle(TRUE)

SpecApi == Init /\ [][NextApi]_vars

\* ---- producers of the notifications queue -----------------------------------
NotifInputs ==
    {NotifBody("object", u, "info", None) : u \in Users}
    \cup {NotifBody("object", None, "info", None),
          NotifBody("array", None, "None", None),
          NotifBody("invalid", None, "None", None)}

PublishNotif(body) ==
    /\ published < MaxPublished
    /\ notifQ' = SendMessages(notifQ, << body >>, nextId)
    /\ nextId' = nextId + 1
    /\ published' = published + 1
    /\ UNCHANGED << procQ, idxQ, receives, db, searchIndex, varsD, varsI, varsN, varsW, apiResult, varsQ, userCategory >>

\* ---- GET /notifications -------------------------------------------------------
\* messages = service_bus_service.receive_notifications_messages(), as one
\* of at most budget receive calls
GetNotificationsReceiveWithin(user, k, budget) ==
    /\ pcN \in {"idle", "done"}
    /\ receives < budget
    /\ k \in 1 .. Min(NotifBatch, Cardinality(Avail(notifQ)))
    /\ userN' = user
    /\ messagesN' = ReceiveMessages(notifQ, k)
    /\ notifQ' = DeliverMessages(notifQ, messagesN')
    /\ receives' = receives + 1
    /\ iN' = 1
    /\ notificationsN' = << >>
    /\ responseN' = "none"
    /\ pcN' = "loop"
    /\ UNCHANGED << procQ, idxQ, nextId, published, db, searchIndex, shownN, varsD, varsI, varsW, apiResult, varsQ, userCategory >>

GetNotificationsReceive(user, k) == GetNotificationsReceiveWithin(user, k, MaxReceives)

\* one iteration of "for message in messages"
GetNotificationsStep ==
    /\ pcN = "loop"
    /\ iN <= Len(messagesN)
    /\ LET message == messagesN[iN]
           message_body == message.body
       IN  IF message_body.json = "invalid"
           THEN \* json.JSONDecodeError: complete the malformed message, continue
                /\ notifQ' = CompleteMessage(notifQ, message.id)
                /\ iN' = iN + 1
                /\ UNCHANGED << notificationsN, responseN, pcN >>
           ELSE IF message_body.json = "array"
           THEN \* message_body.get raises AttributeError, which is no
                \* JSONDecodeError: the outer except answers 500
                /\ responseN' = "500"
                /\ pcN' = "done"
                /\ UNCHANGED << notifQ, iN, notificationsN >>
           ELSE IF message_body.user_id = userN
           THEN /\ notificationsN' = Append(notificationsN,
                       [id |-> message.id, user_id |-> message_body.user_id,
                        type |-> message_body.type])
                /\ notifQ' = CompleteMessage(notifQ, message.id)
                /\ iN' = iN + 1
                /\ UNCHANGED << responseN, pcN >>
           ELSE /\ notifQ' = AbandonMessage(notifQ, message.id)
                /\ iN' = iN + 1
                /\ UNCHANGED << notificationsN, responseN, pcN >>
    /\ UNCHANGED << procQ, idxQ, nextId, published, receives, db, searchIndex,
                    userN, messagesN, shownN, varsD, varsI, varsW, apiResult, varsQ, userCategory >>

\* an iteration in which complete_message / abandon_message raises: the
\* service prints the error and returns, the message keeps its lock
GetNotificationsStepUnsettled ==
    /\ pcN = "loop"
    /\ iN <= Len(messagesN)
    /\ LET message == messagesN[iN]
           message_body == message.body
       IN  /\ message_body.json # "array"
           /\ notificationsN' =
                 IF message_body.json = "object" /\ message_body.user_id = userN
                 THEN Append(notificationsN,
                             [id |-> message.id, user_id |-> message_body.user_id,
                              type |-> message_body.type])
                 ELSE notificationsN
    /\ iN' = iN + 1
    /\ UNCHANGED << procQ, idxQ, notifQ, nextId, published, receives, db, searchIndex,
                    pcN, userN, messagesN, responseN, shownN, varsD, varsI, varsW, apiResult, varsQ, userCategory >>

\* return notifications
GetNotificationsReturn ==
    /\ pcN = "loop"
    /\ iN > Len(messagesN)
    /\ responseN' = "200"
    /\ pcN' = "done"
    /\ shownN' = shownN \cup {<< userN, notificationsN[j].id >> : j \in 1 .. Len(notificationsN)}
    /\ UNCHANGED << procQ, idxQ, notifQ, nextId, published, receives, db, searchIndex,
                    userN, messagesN, iN, notificationsN, varsD, varsI, varsW, apiResult, varsQ, userCategory >>

\* lock_duration=timedelta(minutes=5): the lock of a message that no request
\* is handling any more expires and the message is delivered again
LockExpire ==
    /\ pcN # "loop"
    /\ \E m \in notifQ :
          /\ m.locked
          /\ notifQ' = AbandonMessage(notifQ, m.id)
    /\ UNCHANGED << procQ, idxQ, nextId, published, receives, db, searchIndex,
                    varsD, varsI, varsN, varsW, apiResult, varsQ, userCategory >>

NextNotif ==
    \/ \E body \in NotifInputs : PublishNotif(body)
    \/ \E user \in Users : \E k \in 1 .. NotifBatch : GetNotificationsReceive(user, k)
    \/ GetNotificationsStep
    \/ GetNotificationsReturn
    \/ LockExpire

SpecNotif == Init /\ [][NextNotif]_vars

\* the notifications consumer with enough requests for a message to reach
\* the queue's max_delivery_count
UserNotifications == {NotifBody("object", u, "info", None) : u \in Users}

NextRedelivery ==
    \/ \E body \in UserNotifications : PublishNotif(body)
    \/ \E user \in Users : \E k \in 1 .. NotifBatch :
          GetNotificationsReceiveWithin(user, k, MaxDeliveryCount + MaxReceives)
    \/ GetNotificationsStep
    \/ GetNotificationsReturn

SpecRedelivery == Init /\ [][NextRedelivery]_vars

\* the worker process while the API's producers put notifications on the queue
NextWorkerNotif ==
    \/ NextWorker
    \/ \E body \in UserNotifications : PublishNotif(body)

SpecWorkerNotif == InitWorker /\ [][NextWorkerNotif]_vars

\* the notifications consumer with settlements that can fail
NextNotifUnsettled == NextNotif \/ GetNotificationsStepUnsettled

SpecNotifUnsettled == Init /\ [][NextNotifUnsettled]_vars

\* ---- POST /documents/process-pending ---------------------------------------------
\* process_pending_documents for current_user: every pending row of the user
\* is processed; failing is the set of documents whose text extraction
\* raises, auto_category the answers of CategoryService.auto_categorize;
\* one commit at the end (commitOk), a failed commit is rolled back.
ProcessPendingDocuments(current_user, failing, auto_category, commitOk) ==
    LET pending_docs == {d \in Docs : /\ db[d].user_id = current_user
                                      /\ db[d].processing_status = "pending"}
    IN  /\ failing \subseteq pending_docs
        /\ \A d \in Docs \ (pending_docs \ failing) : auto_category[d] = "other"
        /\ db' = IF commitOk
                 THEN [d \in Docs |->
                         IF d \notin pending_docs THEN db[d]
                         ELSE IF d \in failing
                         THEN [db[d] EXCEPT !.processing_status = "failed"]
                         ELSE [db[d] EXCEPT !.category = auto_category[d],
                                            !.processing_status = "completed"]]
                 ELSE db
        /\ apiResult' = [op |-> "process_pending", document_id |-> None,
                         sync |-> commitOk, sent |-> FALSE,
                         response |-> IF commitOk THEN "success" ELSE "error"]
        /\ UNCHANGED << procQ, idxQ, notifQ, nextId, published, receives, searchIndex,
                        varsD, varsI, varsN, varsW, varsQ, userCategory >>

\* ---- the document service, process-pending and both pollers of the worker ------
\* processing that does not raise (DocComplete is then never reached)
NextDocuments ==
    \/ \E d \in Docs : \E category \in CategoryInputs : \E auto_category \in Categories :
          \E syncOk \in BOOLEAN : \E sendOk \in BOOLEAN :
             UploadDocument(d, category, auto_category, syncOk, sendOk)
    \/ \E d \in Docs : \E u \in Users : \E syncOk \in BOOLEAN : \E sendOk \in BOOLEAN :
          DeleteDocument(d, u, syncOk, sendOk)
    \/ \E current_user \in Users : \E failing \in SUBSET Docs :
          \E auto_category \in [Docs -> Categories] : \E commitOk \in BOOLEAN :
             ProcessPendingDocuments(current_user, failing, auto_category, commitOk)
    \/ \E body \in TaskInputs : PublishProc(body)
    \/ \E configOk \in BOOLEAN : \E connOk \in BOOLEAN : WorkerStart(configOk, connOk)
    \/ DocReceiveCall
    \/ \E k \in 0 .. DocBatch : DocReceive(k)
    \/ DocReceiveError
    \/ DocNext
    \/ DocHandle("none", TRUE)
    \/ DocResume("none", TRUE)
    \/ DocSettle(TRUE)
    \/ IdxPoller

SpecDocuments == Init /\ [][NextDocuments]_vars

\* ---- queue provisioning -------------------------------------------------------------
\* ensure_queues_exist that does not look for the queue before creating it
EnsureQueuesExistCreateOnly(existing, getFails, createFails) ==
    [results |-> [queue_name \in QueueNames |->
                     queue_name \notin existing /\ queue_name \notin createFails],
     created |-> QueueNames \ (existing \cup createFails),
     raised |-> FALSE]

\* ensure_queues_exist() on a namespace with the queues existing.  getFails:
\* the queues for which get_queue raises although the namespace can hold
\* them (the service does not answer); createFails: the missing queues whose
\* create_queue raises.  For each name: get_queue answers -> True; it
\* raises (the queue is missing, or the call failed) -> create_queue, which
\* raises for a queue that exists; created -> True, else False.  Every
\* exception is caught.
EnsureQueuesExist(existing, getFails, createFails) ==
    LET found(queue_name) == queue_name \in existing /\ queue_name \notin getFails
        creates(queue_name) == /\ ~found(queue_name)
                               /\ queue_name \notin existing
                               /\ queue_name \notin createFails
    IN  [results |-> [queue_name \in QueueNames |->
                         found(queue_name) \/ creates(queue_name)],
         created |-> {queue_name \in QueueNames : creates(queue_name)},
         raised |-> FALSE]

\* POST /azure/setup-service-bus-queues: results = await ensure_queues_exist()
SetupServiceBusQueues(getFails, createFails) ==
    /\ createFails \cap queues = {}
    /\ LET r == EnsureQueuesExist(queues, getFails, createFails)
       IN  /\ queues' = queues \cup r.created
           /\ ensureResult' =
                 [called |-> TRUE, results |-> r.results, created |-> r.created,
                  raised |-> r.raised,
                  apiFailed |-> getFails \cup createFails # {},
                  before |-> queues,
                  previous |-> IF ~ensureResult.called THEN "none"
                               ELSE IF ensureResult.apiFailed THEN "failed" ELSE "ok"]
    /\ UNCHANGED << procQ, idxQ, notifQ, nextId, published, receives, db, searchIndex,
                    varsD, varsI, varsN, varsW, apiResult, userCategory >>

\* somebody deletes a queue of the namespace (portal, CLI): the case the
\* except branch of ensure_queues_exist is written for
DeleteQueue(queue_name) ==
    /\ queue_name \in queues
    /\ queues' = queues \ {queue_name}
    /\ ensureResult' = NoEnsure
    /\ UNCHANGED << procQ, idxQ, notifQ, nextId, published, receives, db, searchIndex,
                    varsD, varsI, varsN, varsW, apiResult, userCategory >>

NextQueues ==
    \/ \E getFails \in SUBSET QueueNames : \E createFails \in SUBSET QueueNames :
          SetupServiceBusQueues(getFails, createFails)
    \/ \E queue_name \in QueueNames : DeleteQueue(queue_name)

SpecQueues == Init /\ [][NextQueues]_vars

\* ---- the whole system ---------------------------------------------------------
Next == NextProc \/ NextIdx \/ NextNotifUnsettled \/ NextApi \/ NextWorker
           \/ NextDocuments \/ NextQueues \/ NextRetry \/ NextRedelivery
           \/ NextWorkerNotif

Spec == Init /\ [][Next]_vars

\* ---- properties ----------------------------------------------------------------
\* an envelope with every key send_document_processing_message needs
WellFormedTask(body) ==
    /\ body.json = "object"
    /\ body.document_id # None /\ body.user_id # None
    /\ body.file_path # "None" /\ body.processing_type # "None"

NewMessages(q, qNext) == {m \in qNext : m.id \notin Ids(q)}

HasNotification(q, user_id, type, document_id) ==
    \E n \in q : n.body = SendNotificationMessageAsync(user_id, type, document_id)

\* C1: when the handling of a document-processing message with retry_count
\* r < 3 fails, the worker publishes exactly one new document-processing
\* message for the same document, with retry_count r + 1, and then completes
\* the original message.
C1_RetryRepublishesIncremented ==
    [][ /\ ( /\ pcD = "result" /\ pcD' # "result"
             /\ ~successD
             /\ WellFormedTask(curD.body)
             /\ curD.body.retry_count # NoRetry
             /\ RetryCountOf(curD.body) < MaxRetries )
           => /\ Cardinality(NewMessages(procQ, procQ')) = 1
              /\ \A m \in NewMessages(procQ, procQ') :
                    /\ m.body.document_id = curD.body.document_id
                    /\ m.body.retry_count = RetryCountOf(curD.body) + 1
        /\ (pcD = "complete" /\ pcD' # "complete") => curD.id \notin Ids(procQ')
      ]_vars

\* C2: the retry chain of a document whose processing always fails is finite:
\* no document-processing message is ever published after 3 failed attempts
\* of its chain.
C2_RetryChainBounded ==
    \A m \in procQ : m.attempt < MaxRetries

\* C3: when processing fails for a task whose retry_count has reached the
\* maximum, the document's processing status is persisted as failed, a
\* failure notification is published and no document-processing message is
\* republished before the message is completed.
C3_ExhaustedMarksFailed ==
    [][ ( /\ pcD = "result" /\ pcD' # "result"
          /\ ~successD
          /\ WellFormedTask(curD.body)
          /\ RetryCountOf(curD.body) >= MaxRetries
          /\ db[curD.body.document_id] # NoDoc )
        => /\ db'[curD.body.document_id].processing_status = "failed"
           /\ HasNotification(notifQ', curD.body.user_id, "error", curD.body.document_id)
           /\ NewMessages(procQ, procQ') = {}
           /\ pcD' = "complete"
      ]_vars

\* C4: when a document-processing task has been processed successfully, the
\* document is persisted with status completed and a search-indexing message
\* with action index and a success notification have been published when the
\* message is about to be completed.
C4_SuccessPersistsAndIndexes ==
    ( /\ pcD = "result"
      /\ successD
      /\ db[curD.body.document_id] # NoDoc )
    => /\ db[curD.body.document_id].processing_status = "completed"
       /\ \E m \in idxQ : m.body = SendSearchIndexingMessage(
                              curD.body.document_id, curD.body.user_id, "index")
       /\ HasNotification(notifQ, curD.body.user_id, "success", curD.body.document_id)

\* C5: a task whose file reference names a blob that does not exist fails
\* terminally: the handler reports failure, the document's status is persisted
\* as failed and a failure notification is published.
C5_MissingBlobIsTerminal ==
    ( /\ pcD = "result"
      /\ WellFormedTask(curD.body)
      /\ curD.body.file_path \notin Blobs
      /\ db[curD.body.document_id] # NoDoc )
    => /\ ~successD
       /\ db[curD.body.document_id].processing_status = "failed"
       /\ HasNotification(notifQ, curD.body.user_id, "error", curD.body.document_id)

\* C6: a received document-processing message is never abandoned: a message
\* the worker holds locked never becomes available for delivery again.
C6_NeverAbandoned ==
    [][ \A m \in procQ : m.locked =>
           \A n \in procQ' : n.id = m.id => n.locked ]_vars

\* C7: a malformed message of the document-processing or search-indexing queue
\* is dropped when it is handled: the step that handles it removes it from
\* its queue.
C7_MalformedDropped ==
    [][ /\ ( /\ pcD = "handle" /\ pcD' # "handle"
             /\ curD.body.json = "invalid" ) => curD.id \notin Ids(procQ')
        /\ ( /\ pcI = "handle" /\ pcI' # "handle"
             /\ curI.body.json = "invalid" ) => curI.id \notin Ids(idxQ')
      ]_vars

\* C8: when get_notifications has answered, every malformed message of the
\* batch (unparseable, or valid JSON that is no object) has been completed and
\* the request has not failed.
C8_MalformedNotificationsCompleted ==
    pcN = "done" =>
       /\ responseN = "200"
       /\ \A i \in 1 .. Len(messagesN) :
             messagesN[i].body.json \in {"invalid", "array"}
                => messagesN[i].id \notin Ids(notifQ)

\* C9: when get_notifications has answered user U, every received notification
\* whose user_id is U is in the returned list and completed, every other one
\* is abandoned and not in the list.
Returned(id) == \E j \in 1 .. Len(notificationsN) : notificationsN[j].id = id

C9_DeliveredToOwnerOnly ==
    pcN = "done" =>
       \A i \in 1 .. Len(messagesN) :
          LET m == messagesN[i]
          IN  m.body.json = "object" =>
                 IF m.body.user_id = userN
                 THEN Returned(m.id) /\ m.id \notin Ids(notifQ)
                 ELSE ~Returned(m.id) /\ m.id \in Ids(notifQ)

\* C10: when the worker handles a search-indexing message and no document with
\* the message's (document_id, user_id) is in the database, the handler
\* reports failure and the message is abandoned, not completed.
NoSuchDocument(body) ==
    /\ body.json = "object"
    /\ body.document_id # None /\ body.user_id # None
    /\ QueryDocument(db, body.document_id, body.user_id) = NoDoc

C10_MissingDocumentAbandoned ==
    [][ /\ (pcI = "handle" /\ pcI' # "handle" /\ NoSuchDocument(curI.body))
           => pcI' = "result" /\ ~successI' /\ idxQ' = idxQ
        /\ (pcI = "result" /\ pcI' # "result" /\ NoSuchDocument(curI.body))
           => \E m \in idxQ' : m.id = curI.id /\ ~m.locked
      ]_vars

C10_Witness ==
    /\ pcI = "loop"
    /\ NoSuchDocument(curI.body)
    /\ ~successI
    /\ \E m \in idxQ : m.id = curI.id /\ ~m.locked

\* C11: handling a search-indexing message with action delete is idempotent:
\* it succeeds and the message is completed also when the document is already
\* absent (no row in the database, no entry in the search index).
DeleteOfAbsent(body) ==
    /\ NoSuchDocument(body)
    /\ body.action = "delete"
    /\ body.document_id \notin searchIndex

C11_DeleteIdempotent ==
    [][ /\ (pcI = "handle" /\ pcI' # "handle" /\ DeleteOfAbsent(curI.body))
           => successI' /\ searchIndex' = searchIndex
        /\ (pcI = "result" /\ pcI' # "result" /\ DeleteOfAbsent(curI.body))
           => curI.id \notin Ids(idxQ')
      ]_vars

\* C12: a notification that is delivered again to the user it was already
\* returned to is recognized as a duplicate: no answer of get_notifications
\* contains a notification id that an earlier answer to that user contained.
C12_RedeliveryNotShownTwice ==
    [][ (pcN = "loop" /\ pcN' = "done" /\ responseN' = "200")
        => \A j \in 1 .. Len(notificationsN) :
              << userN, notificationsN[j].id >> \notin shownN
      ]_vars

\* C13: a failed publish never fails the operation that triggered it:
\* upload_document and delete_document answer success whenever their
\* synchronous work succeeded, and a processing task whose handler did not
\* raise is a success whatever the outcome of its notification publishes.
C13_PublishFailureIsolated ==
    /\ (apiResult.op \in {"upload", "delete"} /\ apiResult.sync)
          => apiResult.response = "success"
    /\ (pcD = "result" /\ ReachesSleep(curD.body, "none") /\ faultD = "none")
          => successD

C13_Witness ==
    /\ apiResult.op \in {"upload", "delete"}
    /\ apiResult.sync /\ ~apiResult.sent
    /\ apiResult.response = "success"
    /\ pcD = "result" /\ faultD = "none" /\ ~notifOkD /\ successD

\* the worker has been asked to stop
StopRequested == \E c \in StopCalls : stopPc[c] # "none"

\* C14: while the worker runs no error ends one of its four loops: after a
\* failed receive, a failed handler or a failed connectivity check every task
\* is still alive; a task has ended only if a stop was requested.
C14_LoopsSurviveErrors ==
    /\ done # {} => StopRequested /\ ~running
    /\ (startup = "ok" /\ ~StopRequested) => (tasks = Tasks /\ \A t \in Tasks : Alive(t))

C14_Witness ==
    /\ recvFailedD /\ pcD = "poll"
    /\ recvFailedI /\ pcI = "poll"
    /\ health = "warning"
    /\ \E m \in procQ : m.body.json = "invalid" /\ ~m.locked
    /\ ~StopRequested
    /\ \A t \in Tasks : Alive(t)

\* C15: a poller that sleeps after a poll whose receive call failed sleeps the
\* error back-off (10 s); after a poll without such an error it sleeps its
\* normal interval (5 s for document-processing, 3 s for search-indexing).
C15_BackoffAfterReceiveError ==
    /\ (pcD = "poll" /\ sleepD # 0)
          => sleepD = IF recvFailedD THEN ErrorSleep ELSE DocSleep
    /\ (pcI = "poll" /\ sleepI # 0)
          => sleepI = IF recvFailedI THEN ErrorSleep ELSE IdxSleep

\* C16: the polling loops are independent: while one poller is stalled, in a
\* receive that waits for messages or in a handler that takes long, the other
\* poller and the health check can still run.
C16_LoopsIndependent ==
    /\ pcD \in {"receiving", "processing"}
          => \A t \in {"idx", "health"} : Alive(t) => CanRun(t)
    /\ pcI = "receiving"
          => \A t \in {"doc", "health"} : Alive(t) => CanRun(t)

C18_StopClosesClient ==
    (\E c \in StopCalls : stopPc[c] = "returned") => ~clientOpen

\* C19: a message the document poller had received and not settled when the
\* shutdown cancelled it is not completed by the shutdown: it stays on the
\* queue, locked until its lock expires and then available for redelivery.
Unsettled == {curD.id} \cup SeqIds(batchD)

C19_CancelLeavesMessage ==
    [][ /\ (pcD # "cancelled" /\ pcD' = "cancelled") => procQ' = procQ
        /\ (pcD' = "cancelled" /\ curD' # NoMsg) => Unsettled' \subseteq Ids(procQ')
      ]_vars

C19_Witness ==
    /\ pcD = "cancelled"
    /\ curD # NoMsg
    /\ \E m \in procQ : m.id = curD.id /\ ~m.locked

\* C20: when a required configuration variable is missing or the connectivity
\* test of the start-up fails, the worker process exits with a non-zero status
\* and no polling loop is started: no task is created and no receive is issued.
C20_FailedStartupExits ==
    startup \in {"config_missing", "connection_failed"}
       => /\ wpc = "exited" /\ exitCode = 1
          /\ tasks = {} /\ ~running
          /\ receives = 0 /\ pcD = "poll" /\ pcI = "poll"

C20_Witness ==
    /\ startup = "connection_failed"
    /\ wpc = "exited" /\ exitCode = 1
    /\ procQ # {} /\ receives = 0

\* a handler invocation of the worker for document d is in progress:
\* _process_document between its start and its return (it is suspended in
\* its sleep), _process_search_indexing during the step that runs it
DocHandlerInProgress(d) ==
    pcD = "processing" /\ curD.body.document_id = d

\* C21: no two handler invocations for the same document_id are in progress
\* at the same time: the search-indexing handler never runs for a document
\* while the document-processing handler for that document has started and
\* not yet returned.
C21_HandlersSerializedPerDocument ==
    [][ (pcI = "handle" /\ pcI' = "result")
           => ~DocHandlerInProgress(curI.body.document_id) ]_vars

\* C22: within a retry chain the republished envelope is never on the queue
\* while the original message is uncompleted: when the worker has published
\* the replacement of the message it is handling, that message is no longer
\* on the document-processing queue.
C22_OneEnvelopePerChain ==
    [][ ( /\ pcD = "result" /\ pcD' = "complete"
          /\ NewMessages(procQ, procQ') # {} )
        => curD.id \notin Ids(procQ') ]_vars

\* C25: a failed attempt that is followed by a republish publishes no failure
\* notification: when the worker republishes a task, no error notification
\* for the task's user and document has been published.
C25_FailureNotificationOnlyAtEnd ==
    [][ ( /\ pcD = "result" /\ pcD' = "complete"
          /\ NewMessages(procQ, procQ') # {} )
        => ~HasNotification(notifQ, curD.body.user_id, "error",
                            curD.body.document_id) ]_vars

C26_DeleteMessageCompleted ==
    [][ ( /\ pcI = "result" /\ pcI' = "loop"
          /\ curI.body.json = "object"
          /\ curI.body.action = "delete"
          /\ curI.body.document_id \in Docs
          /\ db[curI.body.document_id] = NoDoc )
        => /\ curI.id \notin Ids(idxQ')
           /\ curI.body.document_id \notin searchIndex' ]_vars

\* C29: every upload_document and delete_document that succeeds, with its
\* Service Bus publish accepted, publishes exactly one notification for the
\* acting user: document_uploaded or document_deleted.
C29_OneNotificationPerCall ==
    [][ ( /\ db' # db
          /\ apiResult'.op \in {"upload", "delete"}
          /\ apiResult'.response = "success"
          /\ apiResult'.sent )
        => Cardinality({n \in NewMessages(notifQ, notifQ') :
              n.body = NotifBody("object", Owner(apiResult'.document_id),
                                 IF apiResult'.op = "upload" THEN "document_uploaded"
                                 ELSE "document_deleted",
                                 apiResult'.document_id)}) = 1 ]_vars

\* C27: a failed task with retries remaining is never lost: when the worker
\* completes the message of such a task, the replacement message is on the
\* document-processing queue.
C27_CompletedOnlyIfRepublished ==
    [][ ( /\ pcD = "complete" /\ pcD' = "loop"
          /\ Republishes(curD.body, successD)
          /\ curD.id \in Ids(procQ) /\ curD.id \notin Ids(procQ') )
        => \E m \in procQ' :
              /\ m.id > curD.id
              /\ m.body.document_id = curD.body.document_id
              /\ m.attempt = (CHOOSE o \in procQ : o.id = curD.id).attempt + 1 ]_vars

\* C28: a notification addressed to a user is never removed from the
\* notifications queue by the get_notifications request of another user:
\* every step of a request leaves the notifications of the other users on
\* the queue.
C28_OthersNeverRemove ==
    [][ \A m \in notifQ :
           ( /\ pcN = "loop"
             /\ m.body.json = "object"
             /\ m.body.user_id \in Users
             /\ m.body.user_id # userN )
           => m.id \in Ids(notifQ') ]_vars

====
